---- MODULE Spec2Model ----
(***************************************************************************)
(* Ledger and delivery store of 3d.iego-app (lib/db.py): resellers,        *)
(* movements, deliveries (header + line items) kept in SQLite tables, and  *)
(* the operations of lib/db.py on them.  Amounts are whole currency units. *)
(***************************************************************************)
EXTENDS Integers, Sequences, FiniteSets, TLC

VARIABLES
  db,      \* the committed database: tables + sqlite_sequence
  last,    \* what save_entrega returned, when it was the last call made
  issued,  \* history: entrega_nro values returned by save_entrega so far
  conn,    \* per connection: position and locals of an in-flight save_entrega
  wlock,   \* the connection holding SQLite's write lock (NULL: nobody)
  txn,     \* the uncommitted database image of the lock holder
  ss       \* st.session_state of the one browser session

vars == <<db, last, issued, conn, wlock, txn, ss>>

----------------------------------------------------------------------------
\* Bounds of the model (AUTOINCREMENT counters stop here).
MaxRevId == 2
MaxMovId == 2
MaxEntregaId == 2
MaxItems == 2
MaxSplitId == 2
MaxExpenseId == 1
MaxPayoutId == 1
MaxStockId == 1

\* SQL NULL / Python None for integer columns; row ids start at 1.
NULL == 0
\* Python None / SQL NULL for text values.
NoneStr == "None"

Tipos == {"pago", "devolucion", "entrega"}

\* Inputs the callers are drawn from.
Today == "2025-03-15"
NombreInputs == {"Juan", " Ana ", " "}
TipoInputs == {"pago", "devolucion", "entrega", " PAGO ", "otro"}
FechaInputs == {"", "2025-03-15"}
FechaEdits == {"2025-03-15"}
EntregaFechas == {"2025-03-10"}
DetalleInputs == {" x "}
CantidadInputs == {0}
Monto == 2
MedioInputs == {"MP"}
ClienteInputs == {"", "Ana"}
ConceptoInputs == {" x "}
NotaInputs == {" "}
PiezaInputs == {"B", " "}
\* Line items a caller may pass: a well-formed one, one whose 'total' is not
\* cantidad * precio, one with a blank label, no quantity and a negative price,
\* and a malformed one (pieza is None, so .strip() raises).
ItemOk == [pieza |-> " A ", cantidad |-> 2, precio |-> 3, total |-> 6]
ItemOtherTotal == [pieza |-> "B", cantidad |-> 1, precio |-> 3, total |-> 5]
ItemInvalid == [pieza |-> " ", cantidad |-> 0, precio |-> -1, total |-> 0]
ItemMalformed == [pieza |-> NoneStr, cantidad |-> 1, precio |-> 1, total |-> 1]

ItemLists ==
  { s \in { <<>>, <<ItemOk, ItemOtherTotal>>, <<ItemInvalid>>, <<ItemOk, ItemMalformed>>,
            <<ItemOk, ItemOk, ItemOtherTotal>> } : Len(s) <= MaxItems }

----------------------------------------------------------------------------
\* Python str helpers.

\* str.strip(): drop leading and trailing blanks.
RECURSIVE LStrip(_)
LStrip(s) ==
  IF Len(s) > 0 /\ SubSeq(s, 1, 1) = " " THEN LStrip(SubSeq(s, 2, Len(s))) ELSE s

RECURSIVE RStrip(_)
RStrip(s) ==
  IF Len(s) > 0 /\ SubSeq(s, Len(s), Len(s)) = " "
  THEN RStrip(SubSeq(s, 1, Len(s) - 1)) ELSE s

Strip(s) == RStrip(LStrip(s))

\* str.lower() over the letters the kinds are written with.
LowerChar(c) ==
  CASE c = "P" -> "p" [] c = "A" -> "a" [] c = "G" -> "g" [] c = "O" -> "o"
    [] c = "D" -> "d" [] c = "E" -> "e" [] c = "V" -> "v" [] c = "L" -> "l"
    [] c = "U" -> "u" [] c = "C" -> "c" [] c = "I" -> "i" [] c = "N" -> "n"
    [] c = "T" -> "t" [] c = "R" -> "r" [] OTHER -> c

RECURSIVE Lower(_)
Lower(s) ==
  IF Len(s) = 0 THEN s
  ELSE LowerChar(SubSeq(s, 1, 1)) \o Lower(SubSeq(s, 2, Len(s)))

\* The helpers above, tabulated once over the texts the callers pass.
Texts ==
  NombreInputs \cup TipoInputs \cup DetalleInputs \cup {Lower(t) : t \in TipoInputs}
  \cup ConceptoInputs \cup NotaInputs
  \cup {ItemOk.pieza, ItemOtherTotal.pieza, ItemInvalid.pieza} \cup PiezaInputs

StripOf == [s \in Texts |-> Strip(s)]
LowerOf == [s \in TipoInputs |-> Lower(s)]

----------------------------------------------------------------------------
\* The empty database after init_db().
EmptyDb ==
  [ revendedores  |-> {},
    movimientos   |-> {},
    entregas      |-> {},
    entrega_items |-> {},
    payment_splits |-> {},
    expenses |-> {},
    partner_payouts |-> {},
    stock_items |-> {},
    seq |-> [revendedores |-> 0, movimientos |-> 0, entregas |-> 0, entrega_items |-> 0,
             payment_splits |-> 0, expenses |-> 0, partner_payouts |-> 0,
             stock_items |-> 0] ]

RevIds(d) == {r.id : r \in d.revendedores}
SplitIds(d) == {x.id : x \in d.payment_splits}
MovIds(d) == {m.id : m \in d.movimientos}
EntregaIds(d) == {e.id : e \in d.entregas}

\* Result of one SQL statement: ok, the database image after it, the new rowid,
\* and the exception raised when it failed.
StmtOk(d, id) == [ok |-> TRUE, db |-> d, rowid |-> id, err |-> ""]
StmtErr(d, err) == [ok |-> FALSE, db |-> d, rowid |-> NULL, err |-> err]

\* SUM(monto) over a set of movement rows (COALESCE(...,0) on the empty set).
RECURSIVE SumMonto(_)
SumMonto(S) ==
  IF S = {} THEN 0
  ELSE LET m == CHOOSE x \in S : TRUE IN m.monto + SumMonto(S \ {m})

\* SUM(total) over a set of line-item rows.
RECURSIVE SumItemTotal(_)
SumItemTotal(S) ==
  IF S = {} THEN 0
  ELSE LET i == CHOOSE x \in S : TRUE IN i.total + SumItemTotal(S \ {i})

Abs(x) == IF x < 0 THEN 0 - x ELSE x

SetMax(S) == IF S = {} THEN 0 ELSE CHOOSE x \in S : \A y \in S : y <= x

----------------------------------------------------------------------------
\* SQL statements under the schema's constraints (foreign_keys = ON).

\* INSERT INTO revendedores(nombre): nombre UNIQUE, id AUTOINCREMENT.
InsertRevendedor(d, nombre) ==
  IF \E r \in d.revendedores : r.nombre = nombre THEN StmtErr(d, "IntegrityError")
  ELSE LET id == d.seq.revendedores + 1
       IN StmtOk([d EXCEPT !.revendedores = @ \cup {[id |-> id, nombre |-> nombre]},
                           !.seq.revendedores = id], id)

\* UPDATE revendedores SET nombre=? WHERE id=?: nombre UNIQUE.
UpdateRevendedorRow(d, rid, nombre) ==
  IF rid \in RevIds(d) /\ \E r \in d.revendedores : r.nombre = nombre /\ r.id # rid
  THEN StmtErr(d, "IntegrityError")
  ELSE StmtOk([d EXCEPT !.revendedores =
                 {IF r.id = rid THEN [r EXCEPT !.nombre = nombre] ELSE r : r \in @}], NULL)

\* DELETE FROM movimientos WHERE id IN ids; entregas.mov_id ON DELETE SET NULL,
\* payment_splits.mov_id ON DELETE CASCADE.
DeleteMovimientos(d, ids) ==
  [d EXCEPT !.movimientos = {m \in @ : m.id \notin ids},
            !.entregas = {IF e.mov_id \in ids THEN [e EXCEPT !.mov_id = NULL] ELSE e : e \in @},
            !.payment_splits = {x \in @ : x.mov_id \notin ids}]

\* The DELETE had the connection not set PRAGMA foreign_keys = ON: no cascade.
DeleteRevendedorRow_sin_fk(d, rid) ==
  [d EXCEPT !.revendedores = {r \in @ : r.id # rid}]

\* DELETE FROM revendedores WHERE id=?: movimientos.rev_id ON DELETE CASCADE,
\* entregas.rev_id ON DELETE SET NULL.
DeleteRevendedorRow(d, rid) ==
  LET owned == {m.id : m \in {x \in d.movimientos : x.rev_id = rid}}
      d1 == DeleteMovimientos(d, owned)
  IN [d1 EXCEPT !.revendedores = {r \in @ : r.id # rid},
                !.entregas = {IF e.rev_id = rid THEN [e EXCEPT !.rev_id = NULL] ELSE e : e \in @}]

\* INSERT INTO movimientos(...): rev_id NOT NULL with FOREIGN KEY, CHECK on tipo.
InsertMovimiento(d, rev_id, fecha, tipo, detalle, cantidad, monto, medio_pago, entrega_nro) ==
  IF rev_id = NULL \/ rev_id \notin RevIds(d) \/ tipo \notin Tipos
     \/ fecha = NoneStr \/ detalle = NoneStr
  THEN StmtErr(d, "IntegrityError")
  ELSE LET id == d.seq.movimientos + 1
           row == [id |-> id, rev_id |-> rev_id, fecha |-> fecha, tipo |-> tipo,
                   detalle |-> detalle, cantidad |-> cantidad, monto |-> monto,
                   medio_pago |-> medio_pago, entrega_nro |-> entrega_nro]
       IN StmtOk([d EXCEPT !.movimientos = @ \cup {row}, !.seq.movimientos = id], id)

\* UPDATE movimientos SET fecha,tipo,detalle,cantidad,monto,medio_pago WHERE id=?
UpdateMovimientoRow(d, mov_id, fecha, tipo, detalle, cantidad, monto, medio_pago) ==
  IF tipo \notin Tipos /\ mov_id \in MovIds(d) THEN StmtErr(d, "IntegrityError")
  ELSE StmtOk([d EXCEPT !.movimientos =
                 {IF m.id = mov_id
                  THEN [m EXCEPT !.fecha = fecha, !.tipo = tipo, !.detalle = detalle,
                                 !.cantidad = cantidad, !.monto = monto,
                                 !.medio_pago = medio_pago]
                  ELSE m : m \in @}], NULL)

\* INSERT INTO entregas(entrega_nro, rev_id, cliente, fecha, total):
\* entrega_nro UNIQUE, rev_id FOREIGN KEY (NULL allowed), mov_id left NULL.
InsertEntrega(d, nro, rev_id, cliente, fecha, total) ==
  IF (\E e \in d.entregas : e.entrega_nro = nro)
     \/ (rev_id # NULL /\ rev_id \notin RevIds(d))
     \/ fecha = NoneStr
  THEN StmtErr(d, "IntegrityError")
  ELSE LET id == d.seq.entregas + 1
           row == [id |-> id, entrega_nro |-> nro, rev_id |-> rev_id, cliente |-> cliente,
                   fecha |-> fecha, total |-> total, mov_id |-> NULL]
       IN StmtOk([d EXCEPT !.entregas = @ \cup {row}, !.seq.entregas = id], id)

\* The item INSERT had it stored quantity x unit price as the line total.
InsertEntregaItem_recomputed(d, entrega_id, it) ==
  IF it.pieza = NoneStr THEN StmtErr(d, "AttributeError")
  ELSE IF entrega_id \notin EntregaIds(d) THEN StmtErr(d, "IntegrityError")
  ELSE LET id == d.seq.entrega_items + 1
           row == [id |-> id, entrega_id |-> entrega_id, pieza |-> StripOf[it.pieza],
                   cantidad |-> it.cantidad, precio |-> it.precio,
                   total |-> it.cantidad * it.precio]
       IN StmtOk([d EXCEPT !.entrega_items = @ \cup {row}, !.seq.entrega_items = id], id)

\* One iteration of the item loop: it["pieza"].strip() raises on a malformed
\* item, then INSERT INTO entrega_items(entrega_id,pieza,cantidad,precio,total).
InsertEntregaItem(d, entrega_id, it) ==
  IF it.pieza = NoneStr THEN StmtErr(d, "AttributeError")
  ELSE IF entrega_id \notin EntregaIds(d) THEN StmtErr(d, "IntegrityError")
  ELSE LET id == d.seq.entrega_items + 1
           row == [id |-> id, entrega_id |-> entrega_id, pieza |-> StripOf[it.pieza],
                   cantidad |-> it.cantidad, precio |-> it.precio, total |-> it.total]
       IN StmtOk([d EXCEPT !.entrega_items = @ \cup {row}, !.seq.entrega_items = id], id)

\* UPDATE entregas SET mov_id=? WHERE id=?
UpdateEntregaMovId(d, entrega_id, mov_id) ==
  IF mov_id # NULL /\ mov_id \notin MovIds(d) THEN StmtErr(d, "IntegrityError")
  ELSE StmtOk([d EXCEPT !.entregas =
                 {IF e.id = entrega_id THEN [e EXCEPT !.mov_id = mov_id] ELSE e : e \in @}],
              NULL)

\* DELETE FROM entregas WHERE id=?: entrega_items.entrega_id ON DELETE CASCADE.
DeleteEntregaRow(d, entrega_id) ==
  [d EXCEPT !.entregas = {e \in @ : e.id # entrega_id},
            !.entrega_items = {i \in @ : i.entrega_id # entrega_id}]

\* INSERT INTO payment_splits(mov_id, part_amount, cost_divisor, mark_paid):
\* mov_id FOREIGN KEY to movimientos, id AUTOINCREMENT.
InsertSplit(d, mov_id, part_amount, cost_divisor) ==
  IF mov_id \notin MovIds(d) THEN StmtErr(d, "IntegrityError")
  ELSE LET id == d.seq.payment_splits + 1
           row == [id |-> id, mov_id |-> mov_id, part_amount |-> part_amount,
                   cost_divisor |-> cost_divisor, mark_paid |-> 0]
       IN StmtOk([d EXCEPT !.payment_splits = @ \cup {row}, !.seq.payment_splits = id], id)

\* DELETE FROM payment_splits WHERE id=?
DeleteSplitRow(d, split_id) ==
  [d EXCEPT !.payment_splits = {x \in @ : x.id # split_id}]

\* UPDATE payment_splits SET part_amount=?, cost_divisor=? WHERE id=?
UpdateSplitRow(d, split_id, amount, divisor) ==
  [d EXCEPT !.payment_splits =
     {IF x.id = split_id THEN [x EXCEPT !.part_amount = amount, !.cost_divisor = divisor]
      ELSE x : x \in @}]

\* The "with" block had it committed on an exception as well.
Rollback_commits(before, partial) == partial

\* "with get_conn() as c": the block's writes commit when it ends normally and
\* are rolled back when it raises.
Rollback(before, partial) == before

WithConn(before, res) == IF res.ok THEN res.db ELSE Rollback(before, res.db)

----------------------------------------------------------------------------
\* The functions of lib/db.py.  Each returns [ok, db, ...]: ok = FALSE is a
\* raised exception, db the committed database after the call.

\* add_revendedor had it inserted the stripped name without the blank check.
add_revendedor_sin_validar(d, nombre) ==
  LET res == InsertRevendedor(d, StripOf[nombre])
  IN [ok |-> res.ok, db |-> WithConn(d, res), id |-> res.rowid, err |-> res.err]

\* add_revendedor(nombre)
add_revendedor(d, nombre) ==
  LET n == StripOf[nombre]
  IN IF n = "" THEN [ok |-> FALSE, db |-> d, id |-> NULL, err |-> "ValueError"]
     ELSE LET res == InsertRevendedor(d, n)
          IN [ok |-> res.ok, db |-> WithConn(d, res), id |-> res.rowid, err |-> res.err]

\* update_revendedor(rid, nombre)
update_revendedor(d, rid, nombre) ==
  LET n == StripOf[nombre]
  IN IF n = "" THEN [ok |-> FALSE, db |-> d, err |-> "ValueError"]
     ELSE LET res == UpdateRevendedorRow(d, rid, n)
          IN [ok |-> res.ok, db |-> WithConn(d, res), err |-> res.err]

\* delete_revendedor(rid)
delete_revendedor(d, rid) ==
  [ok |-> TRUE, db |-> WithConn(d, StmtOk(DeleteRevendedorRow(d, rid), NULL)), err |-> ""]

\* add_movimiento(rev_id, tipo, detalle, cantidad, monto, fecha, medio_pago, entrega_nro)
add_movimiento(d, rev_id, tipo, detalle, cantidad, monto, fecha, medio_pago, entrega_nro) ==
  LET t == StripOf[LowerOf[tipo]]
      f == IF fecha = "" \/ fecha = NoneStr THEN Today ELSE fecha
  IN IF t \notin Tipos THEN [ok |-> FALSE, db |-> d, err |-> "ValueError"]
     ELSE LET res == InsertMovimiento(d, rev_id, f, t, StripOf[detalle], cantidad, monto,
                                      medio_pago, entrega_nro)
          IN [ok |-> res.ok, db |-> WithConn(d, res), err |-> res.err]

\* update_movimiento(mov_id, fecha, tipo, detalle, cantidad, monto, medio_pago)
update_movimiento(d, mov_id, fecha, tipo, detalle, cantidad, monto, medio_pago) ==
  LET t == StripOf[LowerOf[tipo]]
  IN IF t \notin Tipos THEN [ok |-> FALSE, db |-> d, err |-> "ValueError"]
     ELSE LET res == UpdateMovimientoRow(d, mov_id, fecha, t, StripOf[detalle], cantidad,
                                         monto, medio_pago)
          IN [ok |-> res.ok, db |-> WithConn(d, res), err |-> res.err]

\* get_balance had its second query count only 'devolucion'.
get_balance_sin_entregas(d, rev_id) ==
  LET pagos == SumMonto({m \in d.movimientos : m.rev_id = rev_id /\ m.tipo = "pago"})
      restas == SumMonto({m \in d.movimientos :
                            m.rev_id = rev_id /\ m.tipo \in {"devolucion"}})
  IN pagos - restas

\* get_balance(rev_id): two aggregate queries, pagos - restas.
get_balance(d, rev_id) ==
  LET pagos == SumMonto({m \in d.movimientos : m.rev_id = rev_id /\ m.tipo = "pago"})
      restas == SumMonto({m \in d.movimientos :
                            m.rev_id = rev_id /\ m.tipo \in {"devolucion", "entrega"}})
  IN pagos - restas

\* The next number had it followed the AUTOINCREMENT counter of the headers.
next_entrega_nro_global_por_id(d) == d.seq.entregas + 1

\* _next_entrega_nro_global(conn): COALESCE(MAX(entrega_nro),0) + 1
next_entrega_nro_global(d) == SetMax({e.entrega_nro : e \in d.entregas}) + 1

\* sum(i["total"] for i in items)
RECURSIVE SumTotals(_)
SumTotals(items) ==
  IF Len(items) = 0 THEN 0 ELSE Head(items).total + SumTotals(Tail(items))

\* f"Entrega N°{nro}"
DetalleEntrega(nro) == "Entrega N°" \o ToString(nro)

\* The item loop of save_entrega, stopping at the first item that raises.
RECURSIVE InsertItems(_, _, _)
InsertItems(d, entrega_id, items) ==
  IF Len(items) = 0 THEN StmtOk(d, NULL)
  ELSE LET r == InsertEntregaItem(d, entrega_id, Head(items))
       IN IF r.ok THEN InsertItems(r.db, entrega_id, Tail(items)) ELSE r

\* The debit had it been dated today instead of the delivery's date.
PostDebit_hoy(d, entrega_id, rev_id, fecha, nro, total) ==
  IF rev_id # NULL
  THEN LET m == InsertMovimiento(d, rev_id, Today, "entrega", DetalleEntrega(nro), 0,
                                 total, NoneStr, nro)
       IN IF m.ok THEN UpdateEntregaMovId(m.db, entrega_id, m.rowid) ELSE m
  ELSE StmtOk(d, NULL)

\* The link back had it been written outside the "if rev_id is not None":
\* last_insert_rowid() is then the rowid of the last line item.
PostDebit_siempre_enlaza(d, entrega_id, rev_id, fecha, nro, total) ==
  IF rev_id # NULL
  THEN LET m == InsertMovimiento(d, rev_id, fecha, "entrega", DetalleEntrega(nro), 0,
                                 total, NoneStr, nro)
       IN IF m.ok THEN UpdateEntregaMovId(m.db, entrega_id, m.rowid) ELSE m
  ELSE UpdateEntregaMovId(d, entrega_id, d.seq.entrega_items)

\* The debit movement of a reseller delivery and the link back onto the header.
PostDebit(d, entrega_id, rev_id, fecha, nro, total) ==
  IF rev_id # NULL
  THEN LET m == InsertMovimiento(d, rev_id, fecha, "entrega", DetalleEntrega(nro), 0,
                                 total, NoneStr, nro)
       IN IF m.ok THEN UpdateEntregaMovId(m.db, entrega_id, m.rowid) ELSE m
  ELSE StmtOk(d, NULL)

\* The body of save_entrega's "with" block, with nro already read.
SaveEntregaBlock(d, nro, rev_id, cliente, fecha, items, total) ==
  LET h == InsertEntrega(d, nro, rev_id, IF cliente = "" THEN NoneStr ELSE cliente,
                         fecha, total)
  IN IF ~h.ok THEN h
     ELSE LET its == InsertItems(h.db, h.rowid, items)
          IN IF ~its.ok THEN its
             ELSE LET p == PostDebit(its.db, h.rowid, rev_id, fecha, nro, total)
                  IN [p EXCEPT !.rowid = h.rowid]

\* save_entrega(rev_id, cliente, fecha, items)
save_entrega(d, rev_id, cliente, fecha, items) ==
  IF Len(items) = 0
  THEN [ok |-> FALSE, db |-> d, entrega_id |-> NULL, entrega_nro |-> NULL, total |-> 0,
        err |-> "ValueError"]
  ELSE LET total == SumTotals(items)
           nro == next_entrega_nro_global(d)
           res == SaveEntregaBlock(d, nro, rev_id, cliente, fecha, items, total)
       IN IF res.ok
          THEN [ok |-> TRUE, db |-> WithConn(d, res), entrega_id |-> res.rowid,
                entrega_nro |-> nro, total |-> total, err |-> ""]
          ELSE [ok |-> FALSE, db |-> WithConn(d, res), entrega_id |-> NULL,
                entrega_nro |-> NULL, total |-> 0, err |-> res.err]

\* delete_entrega had it deleted the header only, leaving the linked movement.
delete_entrega_sin_movimiento(d, entrega_id) ==
  IF entrega_id \notin EntregaIds(d) THEN [ok |-> TRUE, db |-> d, err |-> ""]
  ELSE LET d1 == DeleteEntregaRow(d, entrega_id)
       IN [ok |-> TRUE, db |-> WithConn(d, StmtOk(d1, NULL)), err |-> ""]

\* delete_entrega had it read mov["mov_id"] without the "if not mov: return".
delete_entrega_sin_retorno(d, entrega_id) ==
  IF entrega_id \notin EntregaIds(d) THEN [ok |-> FALSE, db |-> d, err |-> "TypeError"]
  ELSE LET mov_id == (CHOOSE e \in d.entregas : e.id = entrega_id).mov_id
           d1 == DeleteEntregaRow(d, entrega_id)
           d2 == IF mov_id # NULL THEN DeleteMovimientos(d1, {mov_id}) ELSE d1
       IN [ok |-> TRUE, db |-> WithConn(d, StmtOk(d2, NULL)), err |-> ""]

\* delete_entrega(entrega_id)
delete_entrega(d, entrega_id) ==
  IF entrega_id \notin EntregaIds(d) THEN [ok |-> TRUE, db |-> d, err |-> ""]
  ELSE LET mov_id == (CHOOSE e \in d.entregas : e.id = entrega_id).mov_id
           d1 == DeleteEntregaRow(d, entrega_id)
           d2 == IF mov_id # NULL THEN DeleteMovimientos(d1, {mov_id}) ELSE d1
       IN [ok |-> TRUE, db |-> WithConn(d, StmtOk(d2, NULL)), err |-> ""]

----------------------------------------------------------------------------
\* The payment splits of views/cuentas.py.

\* Day of March 2025 of a stored date; date('') is NULL.
DayOf ==
  [f \in {"", "2025-03-01", "2025-03-10", "2025-03-15", "2025-03-31"} |->
     CASE f = "" -> NULL
       [] f = "2025-03-01" -> 1
       [] f = "2025-03-10" -> 10
       [] f = "2025-03-15" -> 15
       [] f = "2025-03-31" -> 31]

\* date(fecha) BETWEEN ini AND fin
InWindow(fecha, ini, fin) ==
  /\ DayOf[fecha] # NULL /\ DayOf[ini] # NULL /\ DayOf[fin] # NULL
  /\ DayOf[ini] <= DayOf[fecha] /\ DayOf[fecha] <= DayOf[fin]

\* Rows of a set of rows as a sequence ORDER BY id.
RECURSIVE OrderById(_)
OrderById(S) ==
  IF S = {} THEN <<>>
  ELSE LET x == CHOOSE r \in S : \A y \in S : r.id <= y.id
       IN <<x>> \o OrderById(S \ {x})

\* _fetch_pagos(ini, fin): payments of the window joined with their reseller.
fetch_pagos(d, ini, fin) ==
  {m \in d.movimientos : /\ m.tipo = "pago"
                         /\ m.rev_id \in RevIds(d)
                         /\ InWindow(m.fecha, ini, fin)}

\* _get_splits(mov_id)
get_splits(d, mov_id) == OrderById({x \in d.payment_splits : x.mov_id = mov_id})

\* _ensure_default_split had it inserted the default without counting first.
ensure_default_split_sin_contar(d, mov_id, monto) ==
  LET res == InsertSplit(d, mov_id, monto, 1)
  IN [ok |-> res.ok, db |-> WithConn(d, res), err |-> res.err]

\* _ensure_default_split(mov_id, monto)
ensure_default_split(d, mov_id, monto) ==
  LET cnt == Cardinality({x \in d.payment_splits : x.mov_id = mov_id})
  IN IF cnt = 0
     THEN LET res == InsertSplit(d, mov_id, monto, 1)
          IN [ok |-> res.ok, db |-> WithConn(d, res), err |-> res.err]
     ELSE [ok |-> TRUE, db |-> d, err |-> ""]

\* _add_split(mov_id, amount)
add_split(d, mov_id, amount) ==
  LET res == InsertSplit(d, mov_id, amount, 1)
  IN [ok |-> res.ok, db |-> WithConn(d, res), err |-> res.err]

\* _delete_split(split_id)
delete_split(d, split_id) ==
  [ok |-> TRUE, db |-> WithConn(d, StmtOk(DeleteSplitRow(d, split_id), NULL)), err |-> ""]

\* _update_split(split_id, amount, divisor)
update_split(d, split_id, amount, divisor) ==
  [ok |-> TRUE, db |-> WithConn(d, StmtOk(UpdateSplitRow(d, split_id, amount, divisor), NULL)),
   err |-> ""]

\* Decimal amounts are carried as whole numbers of quarter units, which holds
\* every quotient by the divisors used here and every half of a profit exactly.
Quarters == 4

\* Decimal division n / d of n quarter units, d # 0, exact for the values used.
DecDiv(n, d) ==
  LET q == Abs(n) \div Abs(d)
  IN IF (n < 0) = (d < 0) THEN q ELSE 0 - q

\* The loop of _totals_from_splits over the selected rows.
RECURSIVE TotalsLoop(_)
TotalsLoop(rows) ==
  IF Len(rows) = 0 THEN [gan_total |-> 0, gm_total |-> 0]
  ELSE LET r == Head(rows)
           amt == Quarters * r.part_amount
           div == IF r.cost_divisor # 0 THEN r.cost_divisor ELSE 1
           costo == DecDiv(amt, div)
           gan == amt - costo
           gm == DecDiv(gan, 2)
           rest == TotalsLoop(Tail(rows))
       IN [gan_total |-> gan + rest.gan_total, gm_total |-> gm + rest.gm_total]

\* The SELECT had it joined without the filter on the movement's kind.
TotalsRows_sin_tipo(d, ini, fin) ==
  {x \in d.payment_splits :
     \E m \in d.movimientos : m.id = x.mov_id /\ InWindow(m.fecha, ini, fin)}

\* The SELECT of _totals_from_splits: splits joined with their movement.
TotalsRows(d, ini, fin) ==
  {x \in d.payment_splits :
     \E m \in d.movimientos : m.id = x.mov_id /\ m.tipo = "pago" /\ InWindow(m.fecha, ini, fin)}

\* _totals_from_splits(ini, fin), in quarter units
totals_from_splits(d, ini, fin) == TotalsLoop(OrderById(TotalsRows(d, ini, fin)))

----------------------------------------------------------------------------
\* The expense and payout ledgers and the month's settlement of
\* views/cuentas.py.

ExpenseIds(d) == {e.id : e \in d.expenses}
PayoutIds(d) == {p.id : p \in d.partner_payouts}

\* _add_expense(fecha, concepto, monto)
add_expense(d, fecha, concepto, monto) ==
  LET id == d.seq.expenses + 1
      row == [id |-> id, fecha |-> fecha, concepto |-> StripOf[concepto], monto |-> monto]
  IN [ok |-> TRUE, db |-> [d EXCEPT !.expenses = @ \cup {row}, !.seq.expenses = id], err |-> ""]

\* _del_expense(exp_id)
del_expense(d, exp_id) ==
  [ok |-> TRUE, db |-> [d EXCEPT !.expenses = {e \in @ : e.id # exp_id}], err |-> ""]

\* _get_expenses(ini, fin)
get_expenses(d, ini, fin) == {e \in d.expenses : InWindow(e.fecha, ini, fin)}

\* _add_payout(fecha, monto, nota)
add_payout(d, fecha, monto, nota) ==
  LET id == d.seq.partner_payouts + 1
      row == [id |-> id, fecha |-> fecha, monto |-> monto, nota |-> StripOf[nota]]
  IN [ok |-> TRUE,
      db |-> [d EXCEPT !.partner_payouts = @ \cup {row}, !.seq.partner_payouts = id],
      err |-> ""]

\* _update_payout(pid, fecha, monto, nota)
update_payout(d, pid, fecha, monto, nota) ==
  [ok |-> TRUE,
   db |-> [d EXCEPT !.partner_payouts =
             {IF p.id = pid
              THEN [p EXCEPT !.fecha = fecha, !.monto = monto, !.nota = StripOf[nota]]
              ELSE p : p \in @}],
   err |-> ""]

\* _del_payout(pid)
del_payout(d, pid) ==
  [ok |-> TRUE, db |-> [d EXCEPT !.partner_payouts = {p \in @ : p.id # pid}], err |-> ""]

\* _get_payouts(ini, fin)
get_payouts(d, ini, fin) == {p \in d.partner_payouts : InWindow(p.fecha, ini, fin)}

\* money(x): f"${v:,.0f}" of x quarter units: the sign, and the whole units
\* nearest to |x| with a tie going to the even one.
money(x) ==
  LET k == Abs(x) \div Quarters
      r == Abs(x) % Quarters
      up == (2 * r > Quarters) \/ (2 * r = Quarters /\ k % 2 = 1)
  IN [neg |-> x < 0, units |-> IF up THEN k + 1 ELSE k]

\* gan_individual = gm_total - (gastos_total / D(2))
gan_individual(gm_total, gastos_total) == gm_total - DecDiv(gastos_total, 2)

\* The KPI had it been floored at zero.
pago_a_romina_sin_negativos(individual, payouts_total) ==
  IF individual - payouts_total < 0 THEN 0 ELSE individual - payouts_total

\* pago_a_romina = gan_individual - payouts_total
pago_a_romina(individual, payouts_total) == individual - payouts_total

\* render: the totals of the month and the two KPIs, in quarter units, and
\* the text shown for "Pago a Romina (mes)".
RenderTotals(d, ini, fin) ==
  LET t == totals_from_splits(d, ini, fin)
      gastos_total == Quarters * SumMonto(get_expenses(d, ini, fin))
      payouts_total == Quarters * SumMonto(get_payouts(d, ini, fin))
      individual == gan_individual(t.gm_total, gastos_total)
      pago == pago_a_romina(individual, payouts_total)
  IN [gan_total |-> t.gan_total, gm_total |-> t.gm_total, gastos_total |-> gastos_total,
      payouts_total |-> payouts_total, gan_individual |-> individual,
      pago_a_romina |-> pago, kpi |-> money(pago)]

----------------------------------------------------------------------------
\* The state machine: one user session calling lib/db.py, one call at a time.

\* What the caller of save_entrega got from the last call when nothing was
\* called since: the buyer argument and the returned dict, or the exception.
Call(op, ok, rev, id, nro, total, err) ==
  [op |-> op, ok |-> ok, rev |-> rev, id |-> id, nro |-> nro, total |-> total, err |-> err]

\* Any other call.
Other == Call("other", TRUE, NULL, NULL, NULL, 0, "")

IdleConn == [pc |-> "idle", rev_id |-> NULL, cliente |-> "", fecha |-> "", items |-> <<>>,
             total |-> 0, nro |-> NULL, entrega_id |-> NULL, err |-> ""]

Conns == {1, 2}

\* st.session_state before anything was typed: no amount widget of a part
\* ("pa_<id>") holds a value and the list of pieces of the delivery being
\* entered is empty.
EmptySession == [pa |-> [sid \in {} |-> 0], ent_items |-> <<>>]

Init ==
  /\ db = EmptyDb
  /\ last = Other
  /\ issued = {}
  /\ conn = [c \in Conns |-> IdleConn]
  /\ wlock = NULL
  /\ txn = EmptyDb
  /\ ss = EmptySession

Quiet == wlock = NULL /\ \A c \in Conns : conn[c].pc = "idle"

\* A reseller id that no row ever has.
GhostRevId == MaxRevId + 1

AddRevendedor ==
  /\ Quiet
  /\ db.seq.revendedores < MaxRevId
  /\ \E nombre \in NombreInputs : db' = add_revendedor(db, nombre).db
  /\ last' = Other
  /\ UNCHANGED <<issued, conn, wlock, txn, ss>>

UpdateRevendedor ==
  /\ Quiet
  /\ \E rid \in RevIds(db) \cup {GhostRevId}, nombre \in NombreInputs :
       db' = update_revendedor(db, rid, nombre).db
  /\ last' = Other
  /\ UNCHANGED <<issued, conn, wlock, txn, ss>>

DeleteRevendedor ==
  /\ Quiet
  /\ \E rid \in RevIds(db) \cup {GhostRevId} : db' = delete_revendedor(db, rid).db
  /\ last' = Other
  /\ UNCHANGED <<issued, conn, wlock, txn, ss>>

\* Arguments of add_movimiento / update_movimiento for the row or reseller `id`:
\* every valid kind, a return entered with a negative amount, and one call for
\* each unusual argument.
MovArgs(ids, ghost) ==
  {[id |-> i, tipo |-> t, monto |-> Monto, fecha |-> ""] : i \in ids, t \in Tipos}
  \cup {[id |-> i, tipo |-> "devolucion", monto |-> -Monto, fecha |-> ""] : i \in ids}
  \cup {[id |-> i, tipo |-> t, monto |-> Monto, fecha |-> f] :
          i \in ids, t \in TipoInputs \ Tipos, f \in FechaInputs}
  \cup {[id |-> ghost, tipo |-> "pago", monto |-> Monto, fecha |-> ""]}

AddMovimiento ==
  /\ Quiet
  /\ db.seq.movimientos < MaxMovId
  /\ \E a \in MovArgs(RevIds(db), GhostRevId), detalle \in DetalleInputs,
        cantidad \in CantidadInputs, medio_pago \in MedioInputs :
       db' = add_movimiento(db, a.id, a.tipo, detalle, cantidad, a.monto, a.fecha,
                            medio_pago, NULL).db
  /\ last' = Other
  /\ UNCHANGED <<issued, conn, wlock, txn, ss>>

UpdateMovimiento ==
  /\ Quiet
  /\ \E a \in MovArgs(MovIds(db), MaxMovId + 1), detalle \in DetalleInputs,
        cantidad \in CantidadInputs, fecha \in FechaEdits, medio_pago \in MedioInputs :
       db' = update_movimiento(db, a.id, fecha, a.tipo, detalle, cantidad, a.monto,
                               medio_pago).db
  /\ last' = Other
  /\ UNCHANGED <<issued, conn, wlock, txn, ss>>

\* Arguments of save_entrega: a reseller or a named walk-in buyer with every
\* item list, and every other pairing of rev_id and cliente with one list.
EntregaArgs(d) ==
  {[rev_id |-> r, cliente |-> "", items |-> its] : r \in RevIds(d), its \in ItemLists}
  \cup {[rev_id |-> NULL, cliente |-> "Ana", items |-> its] : its \in ItemLists}
  \cup {[rev_id |-> r, cliente |-> c, items |-> <<ItemInvalid>>] :
          r \in RevIds(d) \cup {NULL, GhostRevId}, c \in ClienteInputs}

\* Room left under the bounds for the rows a save_entrega(a) would insert.
SaveFits(d, a) ==
  /\ d.seq.entregas < MaxEntregaId
  /\ a.rev_id # NULL => d.seq.movimientos < MaxMovId

SaveEntrega ==
  /\ Quiet
  /\ \E a \in EntregaArgs(db), fecha \in EntregaFechas :
       /\ SaveFits(db, a)
       /\ LET r == save_entrega(db, a.rev_id, a.cliente, fecha, a.items)
          IN /\ db' = r.db
             /\ last' = Call("save_entrega", r.ok, IF r.ok THEN a.rev_id ELSE NULL,
                             r.entrega_id, r.entrega_nro, r.total, r.err)
             /\ issued' = IF r.ok THEN issued \cup {r.entrega_nro} ELSE issued
  /\ UNCHANGED <<conn, wlock, txn, ss>>

DeleteEntrega ==
  /\ Quiet
  /\ \E entrega_id \in EntregaIds(db) \cup {MaxEntregaId + 1} :
       db' = delete_entrega(db, entrega_id).db
  /\ last' = Other
  /\ UNCHANGED <<issued, conn, wlock, txn, ss>>

Next ==
  \/ AddRevendedor
  \/ UpdateRevendedor
  \/ DeleteRevendedor
  \/ AddMovimiento
  \/ UpdateMovimiento
  \/ SaveEntrega
  \/ DeleteEntrega

Spec == Init /\ [][Next]_vars

----------------------------------------------------------------------------
\* Two sessions, each on its own connection, each making one save_entrega
\* call, statement by statement. The SELECT of the next number runs before the
\* connection's transaction opens: sqlite3 begins it at the first INSERT.

\* Arguments of the concurrent calls.
ConcArgs(d) ==
  {[rev_id |-> r, cliente |-> "", items |-> <<ItemOk, ItemOtherTotal>>] : r \in RevIds(d)}
  \cup {[rev_id |-> NULL, cliente |-> "Ana", items |-> its] :
          its \in {<<ItemOk, ItemOtherTotal>>, <<ItemOk, ItemMalformed>>}}

\* The call raised: the "with" block rolls back and the exception propagates.
Raise(c, err) ==
  /\ conn' = [conn EXCEPT ![c].pc = "failed", ![c].err = err]
  /\ db' = Rollback(db, txn)
  /\ wlock' = IF wlock = c THEN NULL ELSE wlock
  /\ txn' = IF wlock = c THEN EmptyDb ELSE txn

\* Entry of save_entrega up to the read of the next number.
ConnReadNro(c) ==
  /\ conn[c].pc = "idle"
  /\ \E a \in ConcArgs(db), fecha \in EntregaFechas :
       conn' = [conn EXCEPT ![c] = [pc |-> "header", rev_id |-> a.rev_id,
                                    cliente |-> a.cliente, fecha |-> fecha,
                                    items |-> a.items, total |-> SumTotals(a.items),
                                    nro |-> next_entrega_nro_global(db),
                                    entrega_id |-> NULL, err |-> ""]]
  /\ UNCHANGED <<db, last, issued, wlock, txn, ss>>

\* The header INSERT opens the write transaction on the committed database.
ConnInsertHeader(c) ==
  /\ conn[c].pc = "header"
  /\ wlock = NULL
  /\ LET k == conn[c]
         h == InsertEntrega(db, k.nro, k.rev_id,
                            IF k.cliente = "" THEN NoneStr ELSE k.cliente, k.fecha, k.total)
     IN IF h.ok
        THEN /\ conn' = [conn EXCEPT ![c].pc = "items", ![c].entrega_id = h.rowid]
             /\ wlock' = c
             /\ txn' = h.db
             /\ UNCHANGED db
        ELSE Raise(c, h.err)
  /\ UNCHANGED <<last, issued, ss>>

\* The other connection held the write lock past the busy timeout.
ConnBusy(c) ==
  /\ conn[c].pc = "header"
  /\ wlock \notin {NULL, c}
  /\ Raise(c, "OperationalError")
  /\ UNCHANGED <<last, issued, ss>>

ConnInsertItems(c) ==
  /\ conn[c].pc = "items"
  /\ LET r == InsertItems(txn, conn[c].entrega_id, conn[c].items)
     IN IF r.ok
        THEN /\ conn' = [conn EXCEPT ![c].pc = "debit"]
             /\ txn' = r.db
             /\ UNCHANGED <<db, wlock>>
        ELSE Raise(c, r.err)
  /\ UNCHANGED <<last, issued, ss>>

ConnPostDebit(c) ==
  /\ conn[c].pc = "debit"
  /\ LET k == conn[c]
         p == PostDebit(txn, k.entrega_id, k.rev_id, k.fecha, k.nro, k.total)
     IN IF p.ok
        THEN /\ conn' = [conn EXCEPT ![c].pc = "commit"]
             /\ txn' = p.db
             /\ UNCHANGED <<db, wlock>>
        ELSE Raise(c, p.err)
  /\ UNCHANGED <<last, issued, ss>>

\* Leaving the "with" block commits; the call returns its dict.
ConnCommit(c) ==
  /\ conn[c].pc = "commit"
  /\ db' = txn
  /\ wlock' = NULL
  /\ txn' = EmptyDb
  /\ conn' = [conn EXCEPT ![c].pc = "done"]
  /\ issued' = issued \cup {conn[c].nro}
  /\ UNCHANGED <<last, ss>>

NextConc ==
  \/ AddRevendedor
  \/ SaveEntrega
  \/ \E c \in Conns : ConnReadNro(c)
  \/ \E c \in Conns : ConnInsertHeader(c)
  \/ \E c \in Conns : ConnBusy(c)
  \/ \E c \in Conns : ConnInsertItems(c)
  \/ \E c \in Conns : ConnPostDebit(c)
  \/ \E c \in Conns : ConnCommit(c)

SpecConc == Init /\ [][NextConc]_vars

----------------------------------------------------------------------------
\* The accounts screen (views/cuentas.py) next to the reseller account screen:
\* movements are entered and edited, and the splits of payments requested,
\* added, edited and deleted.

SplitAmounts == {0, 1, Monto}
DivisorInputs == {-1, 0, 1, 2}

\* The month shown by the accounts screen.
MonthIni == "2025-03-01"
MonthFin == "2025-03-31"

\* render: splits are requested for a payment of the month.
EnsureDefaultSplit ==
  /\ Quiet
  /\ db.seq.payment_splits < MaxSplitId
  /\ \E p \in fetch_pagos(db, MonthIni, MonthFin) :
       db' = ensure_default_split(db, p.id, p.monto).db
  /\ last' = Other
  /\ UNCHANGED <<issued, conn, wlock, txn, ss>>

AddSplit ==
  /\ Quiet
  /\ db.seq.payment_splits < MaxSplitId
  /\ \E mov_id \in MovIds(db) \cup {MaxMovId + 1}, amount \in SplitAmounts :
       db' = add_split(db, mov_id, amount).db
  /\ last' = Other
  /\ UNCHANGED <<issued, conn, wlock, txn, ss>>

DeleteSplit ==
  /\ Quiet
  /\ \E split_id \in SplitIds(db) \cup {MaxSplitId + 1} :
       db' = delete_split(db, split_id).db
  /\ last' = Other
  /\ UNCHANGED <<issued, conn, wlock, txn, ss>>

UpdateSplit ==
  /\ Quiet
  /\ \E split_id \in SplitIds(db) \cup {MaxSplitId + 1}, amount \in SplitAmounts,
        divisor \in DivisorInputs :
       db' = update_split(db, split_id, amount, divisor).db
  /\ last' = Other
  /\ UNCHANGED <<issued, conn, wlock, txn, ss>>

NextSplits ==
  \/ AddRevendedor
  \/ DeleteRevendedor
  \/ AddMovimiento
  \/ UpdateMovimiento
  \/ EnsureDefaultSplit
  \/ AddSplit
  \/ DeleteSplit
  \/ UpdateSplit

SpecSplits == Init /\ [][NextSplits]_vars

----------------------------------------------------------------------------
\* The reseller account screen (views/detalle_revendedor.py): the forms that
\* add and edit a movement, and the delete button of a movement row.

\* _monto_con_signo(tipo, monto)
monto_con_signo(tipo, monto) ==
  IF StripOf[LowerOf[tipo]] = "devolucion" THEN 0 - Abs(monto) ELSE Abs(monto)

\* number_input("Monto", min_value=0.0)
FormMontos == {0, Monto}

\* Python's None where a getter returns a dict: the dict of no row.
NoneRow == [id |-> NULL]

\* get_movimiento(mov_id): dict(r) if r else None
get_movimiento(d, mov_id) ==
  IF mov_id \in MovIds(d) THEN CHOOSE m \in d.movimientos : m.id = mov_id ELSE NoneRow

\* get_revendedor(rid)
get_revendedor(d, rid) ==
  IF rid \notin RevIds(d) THEN NoneRow
  ELSE LET r == CHOOSE x \in d.revendedores : x.id = rid
       IN [id |-> r.id, nombre |-> r.nombre, balance |-> get_balance(d, r.id)]

\* get_entrega(entrega_id): the header with the buyer's name resolved.
get_entrega(d, entrega_id) ==
  IF entrega_id \notin EntregaIds(d) THEN NoneRow
  ELSE LET r == CHOOSE e \in d.entregas : e.id = entrega_id
           cliente == IF r.rev_id # NULL
                      THEN IF r.rev_id \in RevIds(d)
                           THEN (CHOOSE x \in d.revendedores : x.id = r.rev_id).nombre
                           ELSE NoneStr
                      ELSE IF r.cliente \in {NoneStr, ""} THEN "Particular" ELSE r.cliente
       IN [id |-> r.id, entrega_nro |-> r.entrega_nro, fecha |-> r.fecha, total |-> r.total,
           rev_id |-> r.rev_id, cliente |-> cliente]

\* db.delete_movimiento(mov_id): lib/db.py defines no such function, the
\* attribute lookup raises and nothing is executed.
delete_movimiento(d, mov_id) == [ok |-> FALSE, db |-> d, err |-> "AttributeError"]

\* form_mov_add submitted; an exception is shown as a warning.
FormMovAdd ==
  /\ Quiet
  /\ db.seq.movimientos < MaxMovId
  /\ \E rev \in RevIds(db), tipo \in {"pago", "devolucion"}, detalle \in DetalleInputs,
        monto \in FormMontos, medio \in MedioInputs :
       db' = add_movimiento(db, rev, tipo, detalle, 0, monto_con_signo(tipo, monto),
                            Today, medio, NULL).db
  /\ last' = Other
  /\ UNCHANGED <<issued, conn, wlock, txn, ss>>

\* form_mov_edit submitted with "Guardar cambios".
FormMovEdit ==
  /\ Quiet
  /\ \E edit_id \in MovIds(db), tipo_e \in Tipos, detalle_e \in DetalleInputs,
        fecha_e \in FechaEdits, monto_e \in FormMontos, medio_e \in MedioInputs :
       LET data == get_movimiento(db, edit_id)
       IN db' = update_movimiento(db, edit_id, fecha_e, tipo_e, detalle_e, data.cantidad,
                                  monto_con_signo(tipo_e, monto_e), medio_e).db
  /\ last' = Other
  /\ UNCHANGED <<issued, conn, wlock, txn, ss>>

\* The delete button of a movement row; an exception is shown as a warning.
BotonBorrarMovimiento ==
  /\ Quiet
  /\ \E mov_id \in MovIds(db) :
       LET r == delete_movimiento(db, mov_id)
       IN /\ db' = r.db
          /\ last' = Call("delete_movimiento", r.ok, NULL, mov_id, NULL, 0, r.err)
  /\ UNCHANGED <<issued, conn, wlock, txn, ss>>

NextScreen ==
  \/ AddRevendedor
  \/ FormMovAdd
  \/ FormMovEdit
  \/ BotonBorrarMovimiento

SpecScreen == Init /\ [][NextScreen]_vars

----------------------------------------------------------------------------
\* The accounts screen's expenses and payouts next to the payments and their
\* splits.

LedgerFechas == {"2025-03-10", "2025-03-15"}
PayoutMontos == {0, 1, Monto}

\* selectbox("Div", list(range(1,11)))
SelectDivs == {1, 2}

\* The loop of "Guardar" over the parts of a payment: one _update_split per
\* part with the values of its two widgets.
RECURSIVE GuardarLoop(_, _, _)
GuardarLoop(d, partes, widgets) ==
  IF Len(partes) = 0 THEN d
  ELSE LET sid == Head(partes).id
       IN GuardarLoop(update_split(d, sid, widgets[sid].pa, widgets[sid].dv).db,
                      Tail(partes), widgets)

\* st.session_state.get(f"pa_{sid}", s["part_amount"]) for the part sid of partes
WidgetPa(s, partes, sid) ==
  IF sid \in DOMAIN s.pa THEN s.pa[sid]
  ELSE LET i == CHOOSE j \in 1..Len(partes) : partes[j].id = sid IN partes[i].part_amount

\* An amount is typed into the "Monto" input of a part of a payment of the
\* month; the script reruns with the value in the widget's state.
EscribirMonto ==
  /\ Quiet
  /\ \E p \in fetch_pagos(db, MonthIni, MonthFin) :
       LET partes == get_splits(db, p.id)
       IN \E i \in 1..Len(partes), amt \in FormMontos :
            ss' = [ss EXCEPT !.pa = (partes[i].id :> amt) @@ @]
  /\ UNCHANGED <<db, last, issued, conn, wlock, txn>>

\* "Guardar" under the parts of a payment of the month.
BotonGuardarPartes ==
  /\ Quiet
  /\ \E p \in fetch_pagos(db, MonthIni, MonthFin) :
       LET partes == get_splits(db, p.id)
           sids == {partes[i].id : i \in 1..Len(partes)}
       IN \E dvs \in [sids -> SelectDivs] :
            /\ db' = GuardarLoop(db, partes,
                                 [sid \in sids |-> [pa |-> WidgetPa(ss, partes, sid),
                                                    dv |-> dvs[sid]]])
            /\ ss' = [ss EXCEPT !.pa = [sid \in DOMAIN ss.pa \ sids |-> ss.pa[sid]]]
  /\ last' = Other
  /\ UNCHANGED <<issued, conn, wlock, txn>>

\* sum_ui: the amounts in the "Monto" inputs of the parts, summed.
RECURSIVE SumUi(_, _)
SumUi(s, partes) ==
  IF Len(partes) = 0 THEN 0
  ELSE (IF Head(partes).id \in DOMAIN s.pa THEN s.pa[Head(partes).id]
        ELSE Head(partes).part_amount)
       + SumUi(s, Tail(partes))

\* restante = float(monto) - sum_ui
Restante(d, s, p) == p.monto - SumUi(s, get_splits(d, p.id))

\* Hundredths in one currency unit.
Cents == 100

\* The warning "Suma ... != Pago ..." is shown: abs(restante) > 0.01
WarnShown(d, s, p) == Cents * Abs(Restante(d, s, p)) > 1

\* The delete button of a part; the widgets of the part leave the page.
BotonBorrarParte ==
  /\ Quiet
  /\ \E p \in fetch_pagos(db, MonthIni, MonthFin) :
       LET partes == get_splits(db, p.id)
       IN \E i \in 1..Len(partes) :
            /\ db' = delete_split(db, partes[i].id).db
            /\ ss' = [ss EXCEPT !.pa = [sid \in DOMAIN ss.pa \ {partes[i].id} |-> ss.pa[sid]]]
  /\ last' = Other
  /\ UNCHANGED <<issued, conn, wlock, txn>>

\* "+ Parte": a part is added with what the visible sum leaves of the payment.
BotonAgregarParte ==
  /\ Quiet
  /\ db.seq.payment_splits < MaxSplitId
  /\ \E p \in fetch_pagos(db, MonthIni, MonthFin) :
       LET r == Restante(db, ss, p)
       IN db' = add_split(db, p.id, IF r > 0 THEN r ELSE 0).db
  /\ last' = Other
  /\ UNCHANGED <<issued, conn, wlock, txn, ss>>

NextPartes ==
  \/ AddRevendedor
  \/ FormMovAdd
  \/ EnsureDefaultSplit
  \/ EscribirMonto
  \/ BotonGuardarPartes
  \/ BotonBorrarParte
  \/ BotonAgregarParte

SpecPartes == Init /\ [][NextPartes]_vars

\* "Agregar" of the expenses expander: saved when a label and a positive
\* amount were entered.
BotonAgregarGasto ==
  /\ Quiet
  /\ db.seq.expenses < MaxExpenseId
  /\ \E fecha_g \in LedgerFechas, concepto_g \in ConceptoInputs, monto_g \in FormMontos :
       IF concepto_g # "" /\ monto_g > 0
       THEN db' = add_expense(db, fecha_g, concepto_g, monto_g).db
       ELSE db' = db
  /\ last' = Other
  /\ UNCHANGED <<issued, conn, wlock, txn, ss>>

\* The delete button of a listed expense of the month.
BotonBorrarGasto ==
  /\ Quiet
  /\ \E e \in get_expenses(db, MonthIni, MonthFin) : db' = del_expense(db, e.id).db
  /\ last' = Other
  /\ UNCHANGED <<issued, conn, wlock, txn, ss>>

\* "Guardar" of the payout form: a new payout, or the one under edit.
GuardarPayout ==
  /\ Quiet
  /\ \E payout_edit_id \in {NULL} \cup PayoutIds(db), fecha_val \in LedgerFechas,
        monto_val \in PayoutMontos, nota_val \in NotaInputs :
       IF monto_val > 0
       THEN IF payout_edit_id = NULL
            THEN /\ db.seq.partner_payouts < MaxPayoutId
                 /\ db' = add_payout(db, fecha_val, monto_val, nota_val).db
            ELSE db' = update_payout(db, payout_edit_id, fecha_val, monto_val, nota_val).db
       ELSE db' = db
  /\ last' = Other
  /\ UNCHANGED <<issued, conn, wlock, txn, ss>>

\* The delete button of a listed payout of the month.
BorrarPayout ==
  /\ Quiet
  /\ \E e \in get_payouts(db, MonthIni, MonthFin) : db' = del_payout(db, e.id).db
  /\ last' = Other
  /\ UNCHANGED <<issued, conn, wlock, txn, ss>>

NextCuentas ==
  \/ AddRevendedor
  \/ FormMovAdd
  \/ EnsureDefaultSplit
  \/ BotonGuardarPartes
  \/ BotonAgregarGasto
  \/ BotonBorrarGasto
  \/ GuardarPayout
  \/ BorrarPayout

SpecCuentas == Init /\ [][NextCuentas]_vars

----------------------------------------------------------------------------
\* The deliveries screen (views/entregas.py): pieces are added to the list of
\* the delivery being entered, and "Guardar entrega" saves it, takes the
\* pieces out of the stock and builds the PDF.

StockIds(d) == {x.id : x \in d.stock_items}

\* _add_item(pieza, cantidad_inicial) of views/stock.py, without category.
add_item(d, pieza, cantidad_inicial) ==
  LET p == StripOf[pieza]
      cant == IF cantidad_inicial < 0 THEN 0 ELSE cantidad_inicial
  IN IF p = "" THEN d
     ELSE IF \E x \in d.stock_items : x.pieza = p
     THEN [d EXCEPT !.stock_items =
             {IF x.pieza = p THEN [x EXCEPT !.cantidad = cant] ELSE x : x \in @}]
     ELSE LET id == d.seq.stock_items + 1
          IN [d EXCEPT !.stock_items = @ \cup {[id |-> id, pieza |-> p, cantidad |-> cant]},
                       !.seq.stock_items = id]

\* movimientos[sid]: minus the quantities of the listed pieces tied to sid.
RECURSIVE StockDelta(_, _)
StockDelta(items, sid) ==
  IF Len(items) = 0 THEN 0
  ELSE (IF Head(items).stock_id = sid THEN 0 - Head(items).cantidad ELSE 0)
       + StockDelta(Tail(items), sid)

\* _dec_stock_bulk(movimientos): nueva_cantidad = max(0, cantidad + delta)
dec_stock_bulk(d, items) ==
  LET sids == {items[i].stock_id : i \in 1..Len(items)} \ {NULL}
  IN [d EXCEPT !.stock_items =
        {IF x.id \in sids
         THEN LET nuevo == x.cantidad + StockDelta(items, x.id)
              IN [x EXCEPT !.cantidad = IF nuevo < 0 THEN 0 ELSE nuevo]
         ELSE x : x \in @}]

\* items_to_save: the listed pieces as save_entrega takes them.
RECURSIVE ItemsToSave(_)
ItemsToSave(items) ==
  IF Len(items) = 0 THEN <<>>
  ELSE <<[pieza |-> Head(items).pieza, cantidad |-> Head(items).cantidad,
          precio |-> Head(items).precio, total |-> Head(items).total]>>
       \o ItemsToSave(Tail(items))

\* _build_pdf_for_entrega: lib/pdfgen.py raises FileNotFoundError when neither
\* data/logo.png nor data/logo.jpg exists.
build_pdf_for_entrega(d, entrega_id, logo) ==
  IF logo THEN [ok |-> TRUE, err |-> ""] ELSE [ok |-> FALSE, err |-> "FileNotFoundError"]

CantidadPiezas == {1, 2}
PrecioPieza == 3
StockInicial == 1

\* The stock screen adds a piece to the stock.
StockAlta ==
  /\ Quiet
  /\ db.seq.stock_items < MaxStockId
  /\ db' = add_item(db, "B", StockInicial)
  /\ last' = Other
  /\ UNCHANGED <<issued, conn, wlock, txn, ss>>

\* "Agregar pieza": a described piece joins the list, tied to a stock entry
\* when it was picked from the stock.
AgregarPieza ==
  /\ Quiet
  /\ Len(ss.ent_items) < MaxItems
  /\ \E ent_pieza \in PiezaInputs, ent_cantidad \in CantidadPiezas,
        stock_id \in {NULL} \cup StockIds(db) :
       IF StripOf[ent_pieza] = "" THEN ss' = ss
       ELSE ss' = [ss EXCEPT !.ent_items =
                     Append(@, [pieza |-> StripOf[ent_pieza], cantidad |-> ent_cantidad,
                                precio |-> PrecioPieza, total |-> ent_cantidad * PrecioPieza,
                                stock_id |-> stock_id])]
  /\ last' = Other
  /\ UNCHANGED <<db, issued, conn, wlock, txn>>

\* ss.ent_cliente: a reseller picked from the list, a named walk-in buyer, or
\* nobody yet.
ClienteSel(d) ==
  {[tipo |-> "rev", rev_id |-> r, nombre |-> ""] : r \in RevIds(d)}
  \cup {[tipo |-> "part", rev_id |-> NULL, nombre |-> "Ana"],
        [tipo |-> NoneStr, rev_id |-> NULL, nombre |-> ""]}

\* "Guardar entrega": save_entrega, then the stock decrement, then the PDF;
\* any exception of the three is shown as "No se pudo guardar" and the list
\* is kept, success empties it.
BotonGuardarEntrega ==
  /\ Quiet
  /\ ss.ent_items # <<>>
  /\ \E cli \in ClienteSel(db), fecha_iso \in EntregaFechas, logo \in BOOLEAN :
       IF cli.tipo \notin {"rev", "part"}
       THEN /\ last' = Other
            /\ UNCHANGED <<db, issued, ss>>
       ELSE /\ SaveFits(db, cli)
            /\ LET info == save_entrega(db, cli.rev_id, cli.nombre, fecha_iso,
                                        ItemsToSave(ss.ent_items))
                   d1 == dec_stock_bulk(info.db, ss.ent_items)
                   pdf == build_pdf_for_entrega(d1, info.entrega_id, logo)
               IN IF ~info.ok
                  THEN /\ db' = info.db
                       /\ last' = Call("guardar_entrega", FALSE, NULL, NULL, NULL, 0, info.err)
                       /\ UNCHANGED <<issued, ss>>
                  ELSE /\ db' = d1
                       /\ issued' = issued \cup {info.entrega_nro}
                       /\ IF pdf.ok
                          THEN /\ ss' = [ss EXCEPT !.ent_items = <<>>]
                               /\ last' = Call("guardar_entrega", TRUE, cli.rev_id,
                                               info.entrega_id, info.entrega_nro, info.total, "")
                          ELSE /\ ss' = ss
                               /\ last' = Call("guardar_entrega", FALSE, NULL, NULL, NULL, 0,
                                               pdf.err)
  /\ UNCHANGED <<conn, wlock, txn>>

NextEntregas ==
  \/ AddRevendedor
  \/ StockAlta
  \/ AgregarPieza
  \/ BotonGuardarEntrega

SpecEntregas == Init /\ [][NextEntregas]_vars

----------------------------------------------------------------------------
\* get_balance(rev_id) on a connection of its own, statement by statement,
\* while another session commits edits of movements.  Each SELECT runs in
\* autocommit mode and reads the database committed at that moment.

\* SELECT COALESCE(SUM(monto),0) ... WHERE rev_id=? AND tipo='pago'
QueryPagos(d, rev_id) ==
  SumMonto({m \in d.movimientos : m.rev_id = rev_id /\ m.tipo = "pago"})

\* SELECT COALESCE(SUM(monto),0) ... WHERE rev_id=? AND tipo IN ('devolucion','entrega')
QueryRestas(d, rev_id) ==
  SumMonto({m \in d.movimientos : m.rev_id = rev_id /\ m.tipo \in {"devolucion", "entrega"}})

\* The reader is connection 1.
Reader == 1

\* get_balance is called and runs its first query; `seen` collects the balance
\* of every database committed from this query to the second one.
BalancePagos ==
  /\ Quiet
  /\ \E rev_id \in RevIds(db) :
       conn' = [conn EXCEPT ![Reader] =
                  [pc |-> "restas", rev_id |-> rev_id, pagos |-> QueryPagos(db, rev_id),
                   seen |-> {get_balance(db, rev_id)}]]
  /\ last' = Other
  /\ UNCHANGED <<db, issued, wlock, txn, ss>>

\* The second query, and the return of float(pagos) - float(restas).
BalanceRestas ==
  /\ conn[Reader].pc = "restas"
  /\ LET k == conn[Reader]
         restas == QueryRestas(db, k.rev_id)
     IN last' = Call("get_balance", TRUE, k.rev_id, NULL, NULL, k.pagos - restas, "")
  /\ conn' = [conn EXCEPT ![Reader] = IdleConn]
  /\ UNCHANGED <<db, issued, wlock, txn, ss>>

\* Another session commits update_movimiento, whatever the reader is doing.
OtraSesionEdita ==
  /\ wlock = NULL
  /\ \E mov_id \in MovIds(db), tipo \in Tipos, detalle \in DetalleInputs,
        medio_pago \in MedioInputs :
       /\ db' = update_movimiento(db, mov_id, Today, tipo, detalle, 0, Monto, medio_pago).db
       /\ conn' = IF conn[Reader].pc = "restas"
                  THEN [conn EXCEPT ![Reader].seen = @ \cup {get_balance(db', conn[Reader].rev_id)}]
                  ELSE conn
  /\ last' = Other
  /\ UNCHANGED <<issued, wlock, txn, ss>>

NextBalance ==
  \/ AddRevendedor
  \/ AddMovimiento
  \/ BalancePagos
  \/ BalanceRestas
  \/ OtraSesionEdita

SpecBalance == Init /\ [][NextBalance]_vars

----------------------------------------------------------------------------
\* _ensure_default_split(mov_id, monto) statement by statement on two
\* connections (two browser sessions rendering the accounts screen).  The
\* COUNT runs in autocommit mode; the INSERT opens the write transaction, which
\* the end of the "with" block commits.

\* SELECT COUNT(*) FROM payment_splits WHERE mov_id=? for a payment of the month.
EnsureCount(c) ==
  /\ conn[c].pc = "idle"
  /\ \E p \in fetch_pagos(db, MonthIni, MonthFin) :
       conn' = [conn EXCEPT ![c] =
                  [pc |-> "counted", mov_id |-> p.id, monto |-> p.monto,
                   cnt |-> Cardinality({x \in db.payment_splits : x.mov_id = p.id})]]
  /\ last' = Other
  /\ UNCHANGED <<db, issued, wlock, txn, ss>>

\* if cnt == 0: INSERT ...; otherwise the block ends with nothing to commit.
EnsureInsert(c) ==
  /\ conn[c].pc = "counted"
  /\ IF conn[c].cnt = 0
     THEN /\ wlock = NULL
          /\ db.seq.payment_splits < MaxSplitId
          /\ LET res == InsertSplit(db, conn[c].mov_id, conn[c].monto, 1)
             IN IF res.ok
                THEN /\ txn' = res.db
                     /\ wlock' = c
                     /\ conn' = [conn EXCEPT ![c].pc = "commit"]
                ELSE /\ conn' = [conn EXCEPT ![c] = IdleConn]
                     /\ UNCHANGED <<wlock, txn>>
     ELSE /\ conn' = [conn EXCEPT ![c] = IdleConn]
          /\ UNCHANGED <<wlock, txn>>
  /\ UNCHANGED <<db, last, issued, ss>>

\* The other connection held the write lock past the busy timeout: the INSERT
\* raises OperationalError.
EnsureBusy(c) ==
  /\ conn[c].pc = "counted" /\ conn[c].cnt = 0
  /\ wlock \notin {NULL, c}
  /\ conn' = [conn EXCEPT ![c] = IdleConn]
  /\ last' = Call("ensure_default_split", FALSE, NULL, conn[c].mov_id, NULL, NULL,
                  "OperationalError")
  /\ UNCHANGED <<db, issued, wlock, txn, ss>>

\* Leaving the "with" block commits the INSERT.
EnsureCommit(c) ==
  /\ conn[c].pc = "commit"
  /\ wlock = c
  /\ db' = txn
  /\ wlock' = NULL
  /\ txn' = EmptyDb
  /\ conn' = [conn EXCEPT ![c] = IdleConn]
  /\ UNCHANGED <<last, issued, ss>>

NextEnsure ==
  \/ AddRevendedor
  \/ FormMovAdd
  \/ \E c \in Conns : EnsureCount(c)
  \/ \E c \in Conns : EnsureInsert(c)
  \/ \E c \in Conns : EnsureBusy(c)
  \/ \E c \in Conns : EnsureCommit(c)

SpecEnsure == Init /\ [][NextEnsure]_vars

----------------------------------------------------------------------------
\* Properties of the ledger and of save_entrega / delete_entrega.

\* The step just taken was a save_entrega call that returned.
SaveReturned == last'.op = "save_entrega" /\ last'.ok

\* The header row of delivery `id` and its line items in database image d.
HeaderOf(d, id) == CHOOSE e \in d.entregas : e.id = id
ItemsOf(d, id) == {i \in d.entrega_items : i.entrega_id = id}

SumKind(d, r, k) == SumMonto({m \in d.movimientos : m.rev_id = r /\ m.tipo = k})

\* The movements of r taken one at a time in insertion (id) order, oldest first
\* or newest first, each added with the sign of its kind.
RECURSIVE RunningBalance(_, _)
RunningBalance(S, oldestFirst) ==
  IF S = {} THEN 0
  ELSE LET m == CHOOSE x \in S : \A y \in S : IF oldestFirst THEN x.id <= y.id
                                                              ELSE x.id >= y.id
       IN (IF m.tipo = "pago" THEN m.monto ELSE 0 - m.monto)
          + RunningBalance(S \ {m}, oldestFirst)

\* C1: for every reseller, get_balance is the sum of the stored amounts of its
\* 'pago' movements minus that of its 'devolucion' movements minus that of its
\* 'entrega' movements, whatever the order the movements are taken in.
C1_BalanceIsSignedSum ==
  \A r \in RevIds(db) :
    LET own == {m \in db.movimientos : m.rev_id = r}
    IN /\ get_balance(db, r)
            = SumKind(db, r, "pago") - SumKind(db, r, "devolucion") - SumKind(db, r, "entrega")
       /\ get_balance(db, r) = RunningBalance(own, TRUE)
       /\ get_balance(db, r) = RunningBalance(own, FALSE)

\* A reseller holding a payment and a delivery debit posted by save_entrega,
\* with a balance that is not zero.
C1_Witness ==
  \E r \in RevIds(db) :
    /\ \E m \in db.movimientos : m.rev_id = r /\ m.tipo = "pago" /\ m.monto > 0
    /\ \E m \in db.movimientos : m.rev_id = r /\ m.tipo = "entrega" /\ m.entrega_nro # NULL
                                   /\ m.monto > 0
    /\ get_balance(db, r) # 0

\* C2: save_entrega for reseller R with total t takes R's balance from b to
\* b - t, and deleting that delivery right after removes its header, its line
\* items and its linked movement and brings the balance back to b.
C2_RoundTrip ==
  [][ (SaveReturned /\ last'.rev # NULL) =>
        LET r == last'.rev
            id == last'.id
            b == get_balance(db, r)
            mov == HeaderOf(db', id).mov_id
            after == delete_entrega(db', id).db
        IN /\ get_balance(db', r) = b - last'.total
           /\ id \notin EntregaIds(after)
           /\ ItemsOf(after, id) = {}
           /\ mov # NULL /\ mov \notin MovIds(after)
           /\ after.entregas = db.entregas
           /\ after.entrega_items = db.entrega_items
           /\ after.movimientos = db.movimientos
           /\ get_balance(after, r) = b ]_vars

\* A delivery with a total was just posted to a reseller whose balance before
\* it was not zero.
C2_Witness ==
  /\ last.op = "save_entrega" /\ last.ok /\ last.rev # NULL
  /\ last.total > 0
  /\ get_balance(db, last.rev) + last.total # 0

\* C3: a save_entrega that returns for a reseller buyer adds exactly one
\* movement: that reseller's, kind 'entrega', the delivery's date, amount the
\* header total, quantity 0, description and entrega_nro naming the assigned
\* number; and the header's mov_id is that movement's id.
C3_DebitPosted ==
  [][ (SaveReturned /\ last'.rev # NULL) =>
        LET h == HeaderOf(db', last'.id)
            new == db'.movimientos \ db.movimientos
        IN /\ db.movimientos \subseteq db'.movimientos
           /\ Cardinality(new) = 1
           /\ \A m \in new :
                /\ m.rev_id = last'.rev /\ h.rev_id = last'.rev
                /\ m.tipo = "entrega"
                /\ m.fecha = h.fecha
                /\ m.monto = h.total /\ h.total = last'.total
                /\ m.cantidad = 0
                /\ m.detalle = "Entrega N°" \o ToString(last'.nro)
                /\ m.entrega_nro = last'.nro /\ h.entrega_nro = last'.nro
                /\ h.mov_id = m.id ]_vars

\* A reseller delivery was just saved while another movement already existed.
C3_Witness ==
  /\ last.op = "save_entrega" /\ last.ok /\ last.rev # NULL
  /\ Cardinality(db.movimientos) = 2
  /\ HeaderOf(db, last.id).mov_id \in MovIds(db)

\* C4: a save_entrega that returns for a free-text buyer (rev_id None) leaves
\* the movements, and so every balance, as they were, and the new header has
\* no linked movement.
C4_WalkInPostsNothing ==
  [][ (SaveReturned /\ last'.rev = NULL) =>
        /\ db'.movimientos = db.movimientos
        /\ \A r \in RevIds(db) : get_balance(db', r) = get_balance(db, r)
        /\ last'.id \in EntregaIds(db') \ EntregaIds(db)
        /\ HeaderOf(db', last'.id).rev_id = NULL
        /\ HeaderOf(db', last'.id).mov_id = NULL ]_vars

\* A walk-in delivery was just saved while resellers had movements.
C4_Witness ==
  /\ last.op = "save_entrega" /\ last.ok /\ last.rev = NULL
  /\ Cardinality(db.movimientos) = 2
  /\ HeaderOf(db, last.id).cliente = "Ana"

\* C5: save_entrega is all-or-nothing: a call that raises leaves every table
\* as it was, and a call that returns leaves the header with its line items
\* and, for a reseller, with its debit movement.
C5_AllOrNothing ==
  [][ /\ (last'.op = "save_entrega" /\ ~last'.ok) => db' = db
      /\ SaveReturned =>
           /\ last'.id \in EntregaIds(db')
           /\ ItemsOf(db', last'.id) # {}
           /\ last'.rev # NULL =>
                \E m \in db'.movimientos \ db.movimientos :
                  HeaderOf(db', last'.id).mov_id = m.id ]_vars

\* save_entrega just raised in its item loop, after the header and a first
\* line item had been inserted, with committed rows present.
C5_Witness ==
  /\ last.op = "save_entrega" /\ ~last.ok /\ last.err = "AttributeError"
  /\ db.revendedores # {}

\* C6: the numbers save_entrega returns are strictly increasing: each is
\* greater than every number returned before, also after deletions.
C6_NumbersNeverReissued ==
  [][ SaveReturned => \A n \in issued : last'.nro > n ]_vars

\* A call whose items all carry a label, so that nothing raises in the loop.
WellFormed(k) == \A n \in 1..Len(k.items) : k.items[n].pieza # NoneStr

\* C7: when two save_entrega calls with well-formed arguments run on separate
\* connections and neither waits past the busy timeout, both return, one with
\* n and the other with n+1.
C7_BothReturnConsecutive ==
  ( /\ \A c \in Conns : conn[c].pc \in {"done", "failed"}
    /\ \A c \in Conns : WellFormed(conn[c]) /\ conn[c].err # "OperationalError" )
  => /\ \A c \in Conns : conn[c].pc = "done"
     /\ conn[1].nro - conn[2].nro \in {1, -1}

\* Two committed deliveries never carry the same number.
NumbersUnique ==
  \A e1, e2 \in db.entregas : e1.entrega_nro = e2.entrega_nro => e1.id = e2.id

\* C8: every delivery header's total is the sum of the totals of its stored
\* line items.
C8_HeaderTotalIsItemSum ==
  \A e \in db.entregas : e.total = SumItemTotal(ItemsOf(db, e.id))

\* A stored delivery with two line items and a total that is not zero.
C8_Witness ==
  \E e \in db.entregas : Cardinality(ItemsOf(db, e.id)) = 2 /\ e.total # 0

\* C9: every stored line item's total is its stored quantity times its stored
\* unit price.
C9_LineTotalRecomputed ==
  \A i \in db.entrega_items : i.total = i.cantidad * i.precio

\* C10: no stored line item has a blank label, a quantity below 1 or a
\* negative unit price.
C10_NoInvalidItemStored ==
  \A i \in db.entrega_items : i.pieza # "" /\ i.cantidad >= 1 /\ i.precio >= 0

\* A call that raised and left the database image d as it was.
Rejected(d, r) == ~r.ok /\ r.db = d

\* C11: in every reachable state, add_revendedor and update_revendedor with a
\* blank name, add_movimiento and update_movimiento with a kind outside
\* {pago, devolucion, entrega}, and save_entrega with no items each raise and
\* leave every table as it is.
C11_ValidationNoSideEffect ==
  /\ \A nombre \in {n \in NombreInputs : StripOf[n] = ""} :
       /\ Rejected(db, add_revendedor(db, nombre))
       /\ \A rid \in RevIds(db) \cup {GhostRevId} :
            Rejected(db, update_revendedor(db, rid, nombre))
  /\ \A tipo \in {t \in TipoInputs : StripOf[LowerOf[t]] \notin Tipos},
        detalle \in DetalleInputs, fecha \in FechaInputs :
       /\ \A rid \in RevIds(db) \cup {GhostRevId} :
            Rejected(db, add_movimiento(db, rid, tipo, detalle, 0, Monto, fecha, "MP", NULL))
       /\ \A mid \in MovIds(db) \cup {MaxMovId + 1} :
            Rejected(db, update_movimiento(db, mid, Today, tipo, detalle, 0, Monto, "MP"))
  /\ \A rid \in RevIds(db) \cup {NULL, GhostRevId}, cliente \in ClienteInputs,
        fecha \in EntregaFechas :
       Rejected(db, save_entrega(db, rid, cliente, fecha, <<>>))

\* save_entrega was just called with no items and raised, in a database that
\* holds resellers, movements and deliveries.
C11_Witness ==
  /\ last.op = "save_entrega" /\ ~last.ok /\ last.err = "ValueError"
  /\ db.revendedores # {} /\ db.movimientos # {} /\ db.entregas # {}

\* C12: every persisted split has cost_divisor >= 1: update_split writes no
\* divisor that is 0 or negative.
C12_DivisorPositive ==
  \A x \in db.payment_splits : x.cost_divisor >= 1

\* C13: each delivery that references a reseller has exactly one associated
\* movement, of kind 'entrega'; each walk-in delivery has none.
C13_ResellerDeliveryHasDebit ==
  \A e \in db.entregas :
    LET linked == {m \in db.movimientos : m.id = e.mov_id}
    IN IF e.rev_id # NULL
       THEN Cardinality(linked) = 1 /\ \A m \in linked : m.tipo = "entrega"
       ELSE linked = {}

\* C14: each delivery header carries exactly one of a reseller reference and
\* a free-text buyer name: never both and never neither.
C14_ExactlyOneBuyer ==
  \A e \in db.entregas : (e.rev_id # NULL) # (e.cliente # NoneStr)

\* C15: a delete_revendedor that removes reseller r removes every movement
\* owned by r and leaves every other reseller, their movements and their
\* balances as they were.
C15_DeleteRevendedorCascade ==
  [][ Cardinality(db'.revendedores) < Cardinality(db.revendedores) =>
        \E r \in RevIds(db) :
          /\ db'.revendedores = {x \in db.revendedores : x.id # r}
          /\ db'.movimientos = {m \in db.movimientos : m.rev_id # r}
          /\ \A o \in RevIds(db) \ {r} : get_balance(db', o) = get_balance(db, o) ]_vars

\* One of two resellers was deleted with its movement; the other keeps its
\* movement and a balance that is not zero.
C15_Witness ==
  /\ db.seq.revendedores = 2 /\ Cardinality(db.revendedores) = 1
  /\ db.seq.movimientos = 2 /\ Cardinality(db.movimientos) = 1
  /\ db.seq.entregas = 0
  /\ \E r \in RevIds(db) : get_balance(db, r) # 0

\* The signed contribution of a movement to its owner's balance.
Contribution(m) == IF m.tipo = "pago" THEN m.monto ELSE 0 - m.monto

\* C16: pressing the delete button of a movement row removes exactly that
\* movement, changes the owner's balance by the movement's signed contribution
\* and leaves all other movements as they were.
C16_MovementDeleted ==
  [][ last'.op = "delete_movimiento" =>
        LET m == get_movimiento(db, last'.id)
        IN /\ db'.movimientos = db.movimientos \ {m}
           /\ get_balance(db', m.rev_id) = get_balance(db, m.rev_id) - Contribution(m) ]_vars

\* C17: every stored movement has amount >= 0 and quantity >= 0.
C17_AmountsNonNegative ==
  \A m \in db.movimientos : m.monto >= 0 /\ m.cantidad >= 0

\* C18: requesting the splits of a payment twice in a row (ensure the default,
\* read, ensure, read) yields the same list both times; for a payment that had
\* no splits it is the single default (portion = the payment's amount, divisor
\* 1), and a payment that already has splits gets none added.
C18_EnsureDefaultIdempotent ==
  \A p \in fetch_pagos(db, MonthIni, MonthFin) :
    LET s0 == get_splits(db, p.id)
        d1 == ensure_default_split(db, p.id, p.monto).db
        s1 == get_splits(d1, p.id)
        d2 == ensure_default_split(d1, p.id, p.monto).db
        s2 == get_splits(d2, p.id)
    IN /\ s2 = s1 /\ d2 = d1
       /\ s0 = <<>> => /\ Len(s1) = 1
                       /\ s1[1].part_amount = p.monto /\ s1[1].cost_divisor = 1
                       /\ s1[1].mov_id = p.id
       /\ s0 # <<>> => d1 = db

\* One payment holds exactly its default split, created by the only insert so
\* far, and another payment has no splits yet.
C18_Witness ==
  /\ db.seq.payment_splits = 1
  /\ \E p, q \in fetch_pagos(db, MonthIni, MonthFin) :
       /\ Len(get_splits(db, p.id)) = 1
       /\ get_splits(db, p.id)[1].part_amount = p.monto /\ p.monto > 0
       /\ get_splits(db, p.id)[1].cost_divisor = 1
       /\ get_splits(db, q.id) = <<>>

\* C19: a payment that has splits keeps at least one split through every
\* step that adds, edits or deletes splits.
C19_SplitsNeverEmptied ==
  [][ db'.movimientos = db.movimientos =>
        \A m \in db.movimientos :
          (m.tipo = "pago" /\ get_splits(db, m.id) # <<>>) => get_splits(db', m.id) # <<>> ]_vars

\* Profit of one split in quarter units: portion - portion/divisor (a stored
\* divisor of 0 counts as 1).
ProfitQ(x) ==
  LET a == Quarters * x.part_amount
  IN IF x.cost_divisor = 0 THEN 0
     ELSE IF x.cost_divisor > 0 THEN a - (a \div x.cost_divisor)
     ELSE a + (a \div (0 - x.cost_divisor))

RECURSIVE SumProfitQ(_)
SumProfitQ(S) ==
  IF S = {} THEN 0 ELSE LET x == CHOOSE y \in S : TRUE IN ProfitQ(x) + SumProfitQ(S \ {x})

RECURSIVE SumHalfProfitQ(_)
SumHalfProfitQ(S) ==
  IF S = {} THEN 0
  ELSE LET x == CHOOSE y \in S : TRUE IN (ProfitQ(x) \div 2) + SumHalfProfitQ(S \ {x})

WindowDates == {"2025-03-01", "2025-03-10", "2025-03-15", "2025-03-31"}

\* The parent movement of a split.
ParentOf(d, x) == CHOOSE m \in d.movimientos : m.id = x.mov_id

\* A payment of 9000 dated inside March, split 4000 / divisor 2 and 5000 / divisor 1.
ScenarioDb ==
  [EmptyDb EXCEPT
     !.revendedores = {[id |-> 1, nombre |-> "Juan"]},
     !.movimientos = {[id |-> 1, rev_id |-> 1, fecha |-> "2025-03-15", tipo |-> "pago",
                       detalle |-> "x", cantidad |-> 0, monto |-> 9000, medio_pago |-> "MP",
                       entrega_nro |-> NULL]},
     !.payment_splits = {[id |-> 1, mov_id |-> 1, part_amount |-> 4000, cost_divisor |-> 2,
                          mark_paid |-> 0],
                         [id |-> 2, mov_id |-> 1, part_amount |-> 5000, cost_divisor |-> 1,
                          mark_paid |-> 0]}]

\* C20: for every window, _totals_from_splits returns as gross profit the sum
\* of portion - portion/divisor over the splits whose parent movement is a
\* payment dated inside the window, bounds included, and as half-profit total
\* the sum of half of each such profit; other splits contribute nothing. For
\* the payment of 9000 split 4000/2 and 5000/1 it returns 2000 and 1000.
C20_TotalsFromSplits ==
  /\ \A ini \in WindowDates, fin \in WindowDates :
       LET inside == {x \in db.payment_splits :
                        /\ ParentOf(db, x).tipo = "pago"
                        /\ DayOf[ini] <= DayOf[ParentOf(db, x).fecha]
                        /\ DayOf[ParentOf(db, x).fecha] <= DayOf[fin]}
           t == totals_from_splits(db, ini, fin)
       IN /\ t.gan_total = SumProfitQ(inside)
          /\ t.gm_total = SumHalfProfitQ(inside)
  /\ totals_from_splits(ScenarioDb, MonthIni, MonthFin)
       = [gan_total |-> Quarters * 2000, gm_total |-> Quarters * 1000]

\* A payment dated on a bound of the window holds a split with divisor 2 and
\* a movement that is not a payment holds a split with a profit as well.
C20_Witness ==
  /\ \E x \in db.payment_splits :
       /\ ParentOf(db, x).tipo = "pago" /\ ParentOf(db, x).fecha = "2025-03-15"
       /\ x.cost_divisor = 2 /\ x.part_amount > 0
  /\ \E x \in db.payment_splits :
       /\ ParentOf(db, x).tipo # "pago" /\ x.cost_divisor = 2 /\ x.part_amount > 0
  /\ totals_from_splits(db, "2025-03-15", "2025-03-15").gm_total > 0
  /\ totals_from_splits(db, "2025-03-01", "2025-03-10").gan_total = 0

\* March 2025 with a payment of 12000 split once with divisor 2 (gross profit
\* 6000), one expense of 2000 and one payout of 1500.
SettlementDb ==
  [EmptyDb EXCEPT
     !.revendedores = {[id |-> 1, nombre |-> "Juan"]},
     !.movimientos = {[id |-> 1, rev_id |-> 1, fecha |-> "2025-03-15", tipo |-> "pago",
                       detalle |-> "x", cantidad |-> 0, monto |-> 12000, medio_pago |-> "MP",
                       entrega_nro |-> NULL]},
     !.payment_splits = {[id |-> 1, mov_id |-> 1, part_amount |-> 12000, cost_divisor |-> 2,
                          mark_paid |-> 0]},
     !.expenses = {[id |-> 1, fecha |-> "2025-03-10", concepto |-> "x", monto |-> 2000]},
     !.partner_payouts = {[id |-> 1, fecha |-> "2025-03-15", monto |-> 1500, nota |-> ""]}]

\* C21: for every month window the accounts screen computes individual profit
\* as the half-profit total of the window's payment splits minus half of the
\* window's expenses, and the payout due as individual profit minus the
\* window's payouts; when the payouts exceed the individual profit the payout
\* due is negative and shown with its minus sign, never floored at zero. With
\* gross split profit 6000, expenses 2000 and payouts 1500 individual profit
\* is 2000 and the payout due 500.
C21_PayoutDue ==
  /\ \A ini \in WindowDates, fin \in WindowDates :
       LET In(f) == DayOf[ini] <= DayOf[f] /\ DayOf[f] <= DayOf[fin]
           half == SumHalfProfitQ({x \in db.payment_splits :
                                     /\ ParentOf(db, x).tipo = "pago"
                                     /\ In(ParentOf(db, x).fecha)})
           exp == SumMonto({e \in db.expenses : In(e.fecha)})
           pay == SumMonto({q \in db.partner_payouts : In(q.fecha)})
           t == RenderTotals(db, ini, fin)
       IN /\ 2 * t.gan_individual = 2 * half - Quarters * exp
          /\ t.pago_a_romina = t.gan_individual - Quarters * pay
          /\ Quarters * pay > t.gan_individual => t.pago_a_romina < 0 /\ t.kpi.neg
  /\ LET t == RenderTotals(SettlementDb, MonthIni, MonthFin)
     IN /\ t.gan_total = Quarters * 6000
        /\ t.gan_individual = Quarters * 2000
        /\ t.pago_a_romina = Quarters * 500
        /\ t.kpi = [neg |-> FALSE, units |-> 500]

\* The month holds a split with a profit, an expense and a payout larger than
\* the individual profit, and the expense lies outside a narrower window.
C21_Witness ==
  LET t == RenderTotals(db, MonthIni, MonthFin)
  IN /\ t.gm_total > 0
     /\ t.gastos_total > 0
     /\ t.payouts_total > t.gan_individual
     /\ RenderTotals(db, "2025-03-15", "2025-03-15").gastos_total = 0

\* SUM(part_amount) over a set of split rows.
RECURSIVE SumPartAmount(_)
SumPartAmount(S) ==
  IF S = {} THEN 0
  ELSE LET x == CHOOSE y \in S : TRUE IN x.part_amount + SumPartAmount(S \ {x})

\* C22: reconciliation is advisory. _add_split, _update_split and
\* _delete_split succeed and persist whatever the parts of a payment sum to;
\* the delta shown under a payment is the payment's amount minus the sum of the
\* portions of its stored splits, and the warning is shown exactly when the
\* delta exceeds 0.01 in absolute value.
C22_ReconciliationAdvisory ==
  \A p \in fetch_pagos(db, MonthIni, MonthFin) :
    LET mine == {x \in db.payment_splits : x.mov_id = p.id}
        delta == p.monto - SumPartAmount(mine)
    IN /\ \A a \in FormMontos :
            LET r == add_split(db, p.id, a)
            IN r.ok /\ \E x \in r.db.payment_splits \ db.payment_splits :
                         x.mov_id = p.id /\ x.part_amount = a
       /\ \A x \in mine, a \in FormMontos, dv \in SelectDivs :
            LET r == update_split(db, x.id, a, dv)
            IN r.ok /\ \E y \in r.db.payment_splits :
                         y.id = x.id /\ y.part_amount = a /\ y.cost_divisor = dv
       /\ \A x \in mine :
            LET r == delete_split(db, x.id) IN r.ok /\ x.id \notin SplitIds(r.db)
       /\ Restante(db, ss, p) = delta
       /\ WarnShown(db, ss, p) <=> Cents * Abs(delta) > 1

\* C23: an edit of an id that does not exist is never a silent success:
\* update_movimiento, update_revendedor and _update_split, which return
\* nothing, raise on a missing id and change nothing; get_movimiento,
\* get_revendedor and get_entrega return None for a missing id.
C23_MissingIdNotFound ==
  /\ \A mov_id \in (1..MaxMovId + 1) \ MovIds(db) :
       LET r == update_movimiento(db, mov_id, "2025-03-15", "pago", " x ", 0, Monto, "MP")
       IN ~r.ok /\ r.db = db
  /\ \A rid \in (1..MaxRevId + 1) \ RevIds(db) :
       LET r == update_revendedor(db, rid, "Juan") IN ~r.ok /\ r.db = db
  /\ \A split_id \in (1..MaxSplitId + 1) \ SplitIds(db) :
       LET r == update_split(db, split_id, Monto, 1) IN ~r.ok /\ r.db = db
  /\ \A mov_id \in (1..MaxMovId + 1) \ MovIds(db) : get_movimiento(db, mov_id) = NoneRow
  /\ \A rid \in (1..MaxRevId + 1) \ RevIds(db) : get_revendedor(db, rid) = NoneRow
  /\ \A entrega_id \in (1..MaxEntregaId + 1) \ EntregaIds(db) :
       get_entrega(db, entrega_id) = NoneRow

\* C24: delete_entrega on an id that no delivery has is a no-op: it raises
\* nothing and leaves deliveries, line items, movements and every balance as
\* they were.
C24_DeleteMissingEntregaNoOp ==
  \A entrega_id \in (1..MaxEntregaId + 1) \ EntregaIds(db) :
    LET r == delete_entrega(db, entrega_id)
    IN /\ r.ok /\ r.err = ""
       /\ r.db.entregas = db.entregas
       /\ r.db.entrega_items = db.entrega_items
       /\ r.db.movimientos = db.movimientos
       /\ \A rid \in RevIds(db) : get_balance(r.db, rid) = get_balance(db, rid)

\* Delivery 1 was saved and deleted, so its id is missing again, while delivery
\* 2 is stored with its line items and its debit.
C24_Witness ==
  /\ db.seq.entregas = 2 /\ EntregaIds(db) = {2}
  /\ ItemsOf(db, 2) # {}
  /\ HeaderOf(db, 2).mov_id \in MovIds(db)
  /\ get_balance(db, HeaderOf(db, 2).rev_id) < 0

\* C25: a save_entrega that returns has assigned the greatest entrega_nro of
\* the deliveries stored when it was called plus 1, and 1 when none was
\* stored; the number it returns is the one on the new header.
C25_NextNumberIsMaxPlusOne ==
  [][ SaveReturned =>
        LET n == last'.nro
        IN /\ \A e \in db.entregas : e.entrega_nro < n
           /\ n = 1 \/ \E e \in db.entregas : e.entrega_nro = n - 1
           /\ db.entregas = {} => n = 1
           /\ last'.id \notin EntregaIds(db)
           /\ HeaderOf(db', last'.id).entrega_nro = n ]_vars

\* save_entrega just returned number 2 next to the stored delivery number 1.
C25_Witness ==
  /\ last.op = "save_entrega" /\ last.ok /\ last.nro = 2
  /\ {e.entrega_nro : e \in db.entregas} = {1, 2}

\* C26: in every reachable state each stored payment split belongs to exactly
\* one existing movement, and that movement is of kind 'pago' - also after
\* update_movimiento changed a movement's kind and after movements or
\* resellers were deleted.
C26_SplitsBelongToPago ==
  \A x \in db.payment_splits :
    LET parents == {m \in db.movimientos : m.id = x.mov_id}
    IN Cardinality(parents) = 1 /\ \A m \in parents : m.tipo = "pago"

\* C27: get_balance called without a connection never returns a value that
\* mixes two ledger states: when another connection commits an edit of one of
\* the reseller's movements between its two queries, the value returned is the
\* balance of the database before that commit or of the database after it.
C27_BalanceNotMixed ==
  [][ conn[Reader].pc = "restas" /\ conn'[Reader].pc = "idle" =>
        last'.total \in conn[Reader].seen ]_vars

\* C28: in every reachable state, the movement linked to a delivery by mov_id
\* carries the delivery header's total as its amount and the delivery's
\* number as its entrega_nro; update_movimiento on the linked movement does
\* not make the debit differ from the delivery's total.
C28_LinkedDebitMatchesDelivery ==
  \A e \in db.entregas :
    e.mov_id # NULL =>
      \E m \in db.movimientos :
        m.id = e.mov_id /\ m.monto = e.total /\ m.entrega_nro = e.entrega_nro

\* C29: when "Guardar entrega" reports a failure, nothing of the attempt is
\* stored: no delivery header, line item, debit movement or stock decrement
\* exists afterwards (so a retry with the kept list cannot duplicate a
\* delivery), also when the failing step is the stock decrement or the PDF
\* that run after save_entrega has committed.
C29_FailedSaveLeavesNothing ==
  [][ last'.op = "guardar_entrega" /\ ~last'.ok =>
        /\ db'.entregas = db.entregas
        /\ db'.entrega_items = db.entrega_items
        /\ db'.movimientos = db.movimientos
        /\ db'.stock_items = db.stock_items ]_vars

\* C30: when _ensure_default_split runs for the same payment without splits
\* on two connections at once, at most one default split is created: no
\* payment ever holds two splits made by it.
C30_AtMostOneDefault ==
  \A m \in db.movimientos :
    Cardinality({x \in db.payment_splits : x.mov_id = m.id}) <= 1

====
